---- MODULE Spec2Model ----
(***************************************************************************)
(* Bar aggregation (BarBuilder, TickBarAggregator, TimeBarAggregator), the *)
(* Position ledger and the Portfolio, modelled as state machines.          *)
(*                                                                         *)
(* Prices are integers in half price increments, so that the midpoint of   *)
(* two quoted prices (always even numbers here) is exact.  Timestamps are  *)
(* integers in seconds.  None stands for Python's None.                    *)
(***************************************************************************)
EXTENDS Integers, Sequences, FiniteSets, TLC

VARIABLES
    builder,      \* the BarBuilder owned by the aggregator under test
    step,         \* bar_type.specification.step
    bars,         \* the bars handed to the registered handler, in order
    ticks,        \* the ticks passed to update so far, in order
    last,         \* the last operation and what it returned
    clock,        \* the simulation clock and its one repeating build timer
    next_close,   \* TimeBarAggregator.next_close
    live,         \* the time aggregator driven by the real-time clock
    stream,       \* the market feed delivered to both time aggregators
    position,     \* the Position
    propagates,   \* whether an exception leaves a void function of the build
    portfolio,    \* the Portfolio
    emitted,      \* the lifecycle events the Portfolio has emitted, in order
    shared        \* the time aggregators that share one simulation clock

vars == <<builder, step, bars, ticks, last, clock, next_close, live, stream, position,
         propagates, portfolio, emitted, shared>>


----------------------------------------------------------------------------
(* Bounds of the model *)

MaxTicks == 5        \* updates per run of the tick-count aggregator
MaxStep == 3         \* largest bar step
MaxOps == 5          \* operations per run of the bare builder
MaxSimTicks == 3     \* updates per run of the time aggregator
MaxGap == 2          \* largest time between two consecutive ticks
StreamLen == 3       \* ticks of the stream fed to both clock variants
MaxFills == 3        \* events applied to the position
MaxCalls == 5        \* calls made on the portfolio
MaxSharedTicks == 2  \* ticks delivered to the aggregators that share a clock

None == -1

PriceTypes == {"BID", "ASK", "MID"}

\* The price types a bar specification can carry: LAST is one the builder has
\* no branch for.
AllPriceTypes == PriceTypes \cup {"LAST"}

\* Quotes a tick can carry: bid, ask (even numbers: whole price increments)
\* and the two sizes.
Quotes ==
    { [bid |-> 2, ask |-> 4, bid_size |-> 1, ask_size |-> 2],
      [bid |-> 4, ask |-> 4, bid_size |-> 2, ask_size |-> 1],
      [bid |-> 6, ask |-> 8, bid_size |-> 1, ask_size |-> 1] }

Tick(q, t) ==
    [bid |-> q.bid, ask |-> q.ask, bid_size |-> q.bid_size,
     ask_size |-> q.ask_size, timestamp |-> t]

----------------------------------------------------------------------------
(* BarBuilder *)

BarBuilder_init(price_type, use_previous_close) ==
    [price_type |-> price_type,
     last_update |-> None,
     count |-> 0,
     open |-> None, high |-> None, low |-> None, close |-> None,
     volume |-> 0,
     use_previous_close |-> use_previous_close]

BarBuilder_get_price(b, tick) ==
    IF b.price_type = "MID" THEN (tick.bid + tick.ask) \div 2
    ELSE IF b.price_type = "BID" THEN tick.bid
    ELSE tick.ask

\* _get_volume that rounds the MID size up
BarBuilder_get_volume_ceil(b, tick) ==
    IF b.price_type = "MID" THEN (tick.bid_size + tick.ask_size + 1) \div 2
    ELSE IF b.price_type = "BID" THEN tick.bid_size
    ELSE tick.ask_size

BarBuilder_get_volume(b, tick) ==
    IF b.price_type = "MID" THEN (tick.bid_size + tick.ask_size) \div 2
    ELSE IF b.price_type = "BID" THEN tick.bid_size
    ELSE tick.ask_size

\* update without the branch that raises the high
BarBuilder_update_noHigh(b, tick) ==
    LET quote == BarBuilder_get_price(b, tick) IN
    [b EXCEPT
        !.open = IF b.open = None THEN quote ELSE @,
        !.high = IF b.open = None THEN quote ELSE @,
        !.low = IF b.open = None THEN quote
                ELSE IF quote < b.low THEN quote ELSE @,
        !.close = quote,
        !.volume = @ + BarBuilder_get_volume(b, tick),
        !.count = @ + 1,
        !.last_update = tick.timestamp]

\* _get_price and _get_volume raise ValueError in their last branch.
BarBuilder_raised(b) ==
    IF b.price_type \in PriceTypes THEN "none" ELSE "ValueError"

\* update; _get_price is called first, so when it raises nothing is assigned.
BarBuilder_update(b, tick) ==
    LET quote == BarBuilder_get_price(b, tick) IN
    IF BarBuilder_raised(b) # "none" THEN b
    ELSE
    [b EXCEPT
        !.open = IF b.open = None THEN quote ELSE @,
        !.high = IF b.open = None THEN quote
                 ELSE IF quote > b.high THEN quote ELSE @,
        !.low = IF b.open = None THEN quote
                ELSE IF quote > b.high THEN @
                ELSE IF quote < b.low THEN quote ELSE @,
        !.close = quote,
        !.volume = @ + BarBuilder_get_volume(b, tick),
        !.count = @ + 1,
        !.last_update = tick.timestamp]

\* _reset that clears the prices under both policies
BarBuilder_reset_noCarry(b) ==
    [b EXCEPT !.open = None, !.high = None, !.low = None, !.close = None,
              !.volume = 0, !.count = 0]

\* _reset that forgets to clear the volume
BarBuilder_reset_keepVolume(b) ==
    IF b.use_previous_close
    THEN [b EXCEPT !.open = b.close, !.high = b.close, !.low = b.close, !.count = 0]
    ELSE [b EXCEPT !.open = None, !.high = None, !.low = None, !.close = None,
                   !.count = 0]

\* _reset that forgets to clear the count
BarBuilder_reset_keepCount(b) ==
    IF b.use_previous_close
    THEN [b EXCEPT !.open = b.close, !.high = b.close, !.low = b.close, !.volume = 0]
    ELSE [b EXCEPT !.open = None, !.high = None, !.low = None, !.close = None,
                   !.volume = 0]

BarBuilder_reset(b) ==
    IF b.use_previous_close
    THEN [b EXCEPT !.open = b.close, !.high = b.close, !.low = b.close,
                   !.volume = 0, !.count = 0]
    ELSE [b EXCEPT !.open = None, !.high = None, !.low = None, !.close = None,
                   !.volume = 0, !.count = 0]

\* The Bar that build returns; close_time = None stands for the omitted argument.
BarBuilder_bar(b, close_time) ==
    [open |-> b.open, high |-> b.high, low |-> b.low, close |-> b.close,
     volume |-> b.volume,
     timestamp |-> IF close_time = None THEN b.last_update ELSE close_time]

\* build: the returned bar and the builder after _reset
BarBuilder_build(b, close_time) ==
    [bar |-> BarBuilder_bar(b, close_time), builder |-> BarBuilder_reset(b)]

----------------------------------------------------------------------------
(* The bare builder: update and build in any interleaving, either policy *)

InitBuilder ==
    /\ \E pt \in AllPriceTypes, upc \in BOOLEAN : builder = BarBuilder_init(pt, upc)
    /\ step = 0
    /\ bars = <<>>
    /\ ticks = <<>>
    /\ last = [op |-> "init", n |-> 0]
    /\ clock = None
    /\ next_close = None
    /\ live = None
    /\ stream = <<>>
    /\ position = None
    /\ propagates = FALSE
    /\ portfolio = None
    /\ emitted = <<>>
    /\ shared = None

BuilderUpdate ==
    /\ last.n < MaxOps
    /\ \E q \in Quotes, t \in 0..1 :
        LET tick == Tick(q, t) IN
        /\ builder' = BarBuilder_update(builder, tick)
        /\ last' = [op |-> "update", n |-> last.n + 1, tick |-> tick,
                    raised |-> BarBuilder_raised(builder)]
    /\ UNCHANGED <<shared, step, bars, ticks, clock, next_close, live, stream, position, propagates, portfolio, emitted>>

BuilderBuild ==
    /\ last.n < MaxOps
    /\ \E ct \in {None, 1} :
        LET r == BarBuilder_build(builder, ct) IN
        /\ builder' = r.builder
        /\ last' = [op |-> "build", n |-> last.n + 1, bar |-> r.bar]
    /\ UNCHANGED <<shared, step, bars, ticks, clock, next_close, live, stream, position, propagates, portfolio, emitted>>

NextBuilder == BuilderUpdate \/ BuilderBuild

SpecBuilder == InitBuilder /\ [][NextBuilder]_vars

\* C5: every bar built from a builder that holds data (at least one update
\* since construction, or since the last build when nothing is carried over)
\* has all four prices set, with low <= open <= high and low <= close <= high.
C5_BarOrdered ==
    (last.op = "build" /\ last.bar.open # None) =>
        /\ last.bar.high # None /\ last.bar.low # None /\ last.bar.close # None
        /\ last.bar.low <= last.bar.open /\ last.bar.open <= last.bar.high
        /\ last.bar.low <= last.bar.close /\ last.bar.close <= last.bar.high

\* A bar whose open lies strictly between its low and its high has been built.
C5_Witness ==
    /\ last.op = "build"
    /\ last.bar.open # None
    /\ last.bar.low < last.bar.open
    /\ last.bar.open < last.bar.high

\* C6: build never returns a bar whose open, high, low or close is null: on a
\* builder without data it fails instead.
C6_NoNullBar ==
    last.op = "build" =>
        /\ last.bar.open # None /\ last.bar.high # None
        /\ last.bar.low # None /\ last.bar.close # None

----------------------------------------------------------------------------
(* TickBarAggregator *)

\* TickBarAggregator.update: the builder and the bars handed to the handler
TickBarAggregator_update(b, n, out, tick) ==
    LET b1 == BarBuilder_update(b, tick) IN
    IF b1.count = n
    THEN LET r == BarBuilder_build(b1, None) IN
         [builder |-> r.builder, bars |-> Append(out, r.bar)]
    ELSE [builder |-> b1, bars |-> out]

LastTime(seq) == IF seq = <<>> THEN 0 ELSE seq[Len(seq)].timestamp

InitTick ==
    /\ \E pt \in PriceTypes : builder = BarBuilder_init(pt, FALSE)
    /\ step \in 1..MaxStep
    /\ bars = <<>>
    /\ ticks = <<>>
    /\ last = [op |-> "init", n |-> 0]
    /\ clock = None
    /\ next_close = None
    /\ live = None
    /\ stream = <<>>
    /\ position = None
    /\ propagates = FALSE
    /\ portfolio = None
    /\ emitted = <<>>
    /\ shared = None

TickUpdate ==
    /\ Len(ticks) < MaxTicks
    /\ \E q \in Quotes, dt \in 0..1 :
        LET tick == Tick(q, LastTime(ticks) + dt)
            r == TickBarAggregator_update(builder, step, bars, tick)
        IN
        /\ builder' = r.builder
        /\ bars' = r.bars
        /\ ticks' = Append(ticks, tick)
        /\ last' = [op |-> "update", n |-> last.n + 1]
    /\ UNCHANGED <<shared, step, clock, next_close, live, stream, position, propagates, portfolio, emitted>>

NextTick == TickUpdate

SpecTick == InitTick /\ [][NextTick]_vars

RECURSIVE SumVolume(_, _)
SumVolume(b, seq) ==
    IF seq = <<>> THEN 0
    ELSE BarBuilder_get_volume(b, seq[1]) + SumVolume(b, Tail(seq))

\* C1: after n updates of a tick-count aggregator with step N the handler has
\* received n \div N bars; the k-th bar spans ticks (k-1)*N+1 .. k*N (it opens
\* at the first of them, closes at and is stamped with the last, and its volume
\* is the sum of their sizes); the n % N trailing ticks are still in the builder.
C1_TickBars ==
    /\ Len(bars) = Len(ticks) \div step
    /\ builder.count = Len(ticks) % step
    /\ \A k \in 1..Len(bars) :
        LET group == SubSeq(ticks, (k - 1) * step + 1, k * step) IN
        /\ bars[k].open = BarBuilder_get_price(builder, group[1])
        /\ bars[k].close = BarBuilder_get_price(builder, group[step])
        /\ bars[k].timestamp = group[step].timestamp
        /\ bars[k].volume = SumVolume(builder, group)

\* Five ticks at step 2: two bars and one trailing tick.
C1_Witness ==
    /\ step = 2
    /\ Len(ticks) = 5
    /\ Len(bars) = 2
    /\ builder.count = 1

----------------------------------------------------------------------------
(* Clock: one repeating timer.  TestClock fires it only from advance_time;  *)
(* LiveClock delivers each firing as an event of its own.                  *)

\* set_timer on a clock whose time is now: the first event is due one interval
\* after start_time and then every interval.
Clock_set_timer(is_test_clock, now, interval, start_time) ==
    [is_test_clock |-> is_test_clock,
     time |-> now,
     start_time |-> start_time,
     interval |-> interval,
     next_event_time |-> start_time + interval,
     pending |-> <<>>]

RECURSIVE DueEvents(_, _, _)
DueEvents(next, interval, to) ==
    IF next > to THEN <<>>
    ELSE <<[timestamp |-> next]>> \o DueEvents(next + interval, interval, to)

\* TestClock.advance_time: every event due at or before to_time becomes
\* pending, in due-time order.
TestClock_advance_time(c, to_time) ==
    LET due == DueEvents(c.next_event_time, c.interval, to_time) IN
    [c EXCEPT !.time = to_time,
              !.pending = c.pending \o due,
              !.next_event_time = c.next_event_time + Len(due) * c.interval]

\* TestClock.get_pending_events: hands the pending events over and forgets them.
TestClock_get_pending_events(c) ==
    [events |-> c.pending, clock |-> [c EXCEPT !.pending = <<>>]]

\* LiveClock: the timer fires at its due time.
LiveClock_fire(c) ==
    [event |-> [timestamp |-> c.next_event_time],
     clock |-> [c EXCEPT !.time = c.next_event_time,
                         !.next_event_time = c.next_event_time + c.interval]]

----------------------------------------------------------------------------
(* TimeBarAggregator *)

StructureSeconds(structure) ==
    CASE structure = "SECOND" -> 1
      [] structure = "MINUTE" -> 60
      [] structure = "HOUR" -> 3600
      [] structure = "DAY" -> 86400

\* _get_interval that leaves the step out
TimeBarAggregator_get_interval_noStep(structure, n) == StructureSeconds(structure)

TimeBarAggregator_get_interval(structure, n) == StructureSeconds(structure) * n

\* _get_start_time: now truncated to the unit of the structure
TimeBarAggregator_get_start_time(structure, now) ==
    now - (now % StructureSeconds(structure))

\* _set_build_timer
TimeBarAggregator_set_build_timer(is_test_clock, now, structure, n) ==
    Clock_set_timer(is_test_clock, now,
                    TimeBarAggregator_get_interval(structure, n),
                    TimeBarAggregator_get_start_time(structure, now))

\* _build_event: build with the event's timestamp and hand the bar over
TimeBarAggregator_build_event(b, out, event) ==
    LET r == BarBuilder_build(b, event.timestamp) IN
    [builder |-> r.builder, bars |-> Append(out, r.bar)]

\* for event, handler in pending: handler(event)
RECURSIVE FireEvents(_, _, _)
FireEvents(b, out, events) ==
    IF events = <<>> THEN [builder |-> b, bars |-> out]
    ELSE LET r == TimeBarAggregator_build_event(b, out, Head(events)) IN
         FireEvents(r.builder, r.bars, Tail(events))

\* update that drains the clock only when an event is due strictly before the tick
TimeBarAggregator_update_strict(b, c, nc, out, tick) ==
    LET b1 == BarBuilder_update(b, tick) IN
    IF c.is_test_clock /\ c.next_event_time < tick.timestamp
    THEN LET c1 == TestClock_advance_time(c, tick.timestamp)
             p == TestClock_get_pending_events(c1)
             r == FireEvents(b1, out, p.events)
         IN [builder |-> r.builder, bars |-> r.bars, clock |-> p.clock,
             next_close |-> p.clock.next_event_time]
    ELSE [builder |-> b1, bars |-> out, clock |-> c, next_close |-> nc]

\* TimeBarAggregator.update
TimeBarAggregator_update(b, c, nc, out, tick) ==
    LET b1 == BarBuilder_update(b, tick) IN
    IF c.is_test_clock /\ c.next_event_time <= tick.timestamp
    THEN LET c1 == TestClock_advance_time(c, tick.timestamp)
             p == TestClock_get_pending_events(c1)
             r == FireEvents(b1, out, p.events)
         IN [builder |-> r.builder, bars |-> r.bars, clock |-> p.clock,
             next_close |-> p.clock.next_event_time]
    ELSE [builder |-> b1, bars |-> out, clock |-> c, next_close |-> nc]

----------------------------------------------------------------------------
(* The time aggregator on a simulation clock, ticks in timestamp order *)

\* The timestamp of the latest tick, or the clock's time before the first one
SimNow == IF ticks = <<>> THEN clock.time ELSE LastTime(ticks)

InitSim ==
    /\ \E pt \in PriceTypes : builder = BarBuilder_init(pt, TRUE)
    /\ step \in 1..MaxStep
    /\ bars = <<>>
    /\ ticks = <<>>
    /\ last = [op |-> "init", n |-> 0]
    /\ \E now \in 0..1 :
        clock = TimeBarAggregator_set_build_timer(TRUE, now, "SECOND", step)
    /\ next_close = clock.next_event_time
    /\ live = None
    /\ stream = <<>>
    /\ position = None
    /\ propagates = FALSE
    /\ portfolio = None
    /\ emitted = <<>>
    /\ shared = None

SimUpdate ==
    /\ Len(ticks) < MaxSimTicks
    /\ \E q \in Quotes, dt \in 0..MaxGap :
        LET tick == Tick(q, SimNow + dt)
            r == TimeBarAggregator_update(builder, clock, next_close, bars, tick)
        IN
        /\ builder' = r.builder
        /\ bars' = r.bars
        /\ clock' = r.clock
        /\ next_close' = r.next_close
        /\ ticks' = Append(ticks, tick)
        /\ last' = [op |-> "update", n |-> last.n + 1]
    /\ UNCHANGED <<shared, step, live, stream, position, propagates, portfolio, emitted>>

NextSim == SimUpdate

SpecSim == InitSim /\ [][NextSim]_vars

\* The number of timer events of clock c due at or before time t
DueCount(c, t) == (t - c.start_time) \div c.interval

\* C2: fed ticks in timestamp order, the simulated time aggregator has emitted
\* one bar for each timer interval that ended at or before the latest tick,
\* whether or not a tick fell in it, and every bar after the first opens at the
\* close of the bar before it.
C2_SimBars ==
    /\ Len(bars) = DueCount(clock, SimNow)
    /\ \A k \in 2..Len(bars) : bars[k].open = bars[k - 1].close

\* Three intervals have ended, one of them without a tick, and a later bar
\* with ticks moved away from the close it opened at.
C2_Witness ==
    /\ Len(bars) >= 3
    /\ \E k \in 2..Len(bars) : bars[k].volume = 0
    /\ \E k \in 2..Len(bars) : bars[k].volume > 0 /\ bars[k].close # bars[k].open

\* C4: when update(tick) has returned, the timer events due at or before the
\* tick's timestamp have each fired once, in due-time order (the k-th bar is
\* stamped with the k-th due time), none is pending, and the clock's next event
\* time is after the tick's timestamp.
C4_Drained ==
    ticks # <<>> =>
        /\ clock.pending = <<>>
        /\ clock.next_event_time > LastTime(ticks)
        /\ clock.next_event_time = clock.start_time + (Len(bars) + 1) * clock.interval
        /\ next_close = clock.next_event_time
        /\ \A k \in 1..Len(bars) :
            /\ bars[k].timestamp = clock.start_time + k * clock.interval
            /\ bars[k].timestamp <= LastTime(ticks)

\* A tick stamped exactly at a due time has drained two or more events at once.
C4_Witness ==
    /\ Len(ticks) = 1
    /\ Len(bars) >= 2
    /\ bars[Len(bars)].timestamp = LastTime(ticks)

----------------------------------------------------------------------------
(* One feed delivered to a time aggregator on a simulation clock and to one *)
(* on a real-time clock.  The real-time timer callback and update are       *)
(* delivered one at a time; the callback due at T comes once time has       *)
(* reached T and before any tick stamped later than T.  The two aggregators *)
(* share nothing but the feed, so the simulated one is run through the feed *)
(* first: every pair of runs is still reached.                              *)

\* The quotes of the feed: one low, one high
FeedQuotes == { q \in Quotes : q.bid # q.ask }

\* The feeds of n ticks in timestamp order, none before time t
RECURSIVE Streams(_, _)
Streams(t, n) ==
    IF n = 0 THEN {<<>>}
    ELSE UNION { { <<Tick(q, t + dt)>> \o rest : rest \in Streams(t + dt, n - 1) } :
                 q \in FeedQuotes, dt \in 0..MaxGap }

InitLive ==
    /\ step \in 1..MaxStep
    /\ last = [op |-> "init", n |-> 0]
    /\ bars = <<>>
    /\ ticks = <<>>
    /\ \E pt \in PriceTypes :
        /\ builder = BarBuilder_init(pt, TRUE)
        /\ clock = TimeBarAggregator_set_build_timer(TRUE, 0, "SECOND", step)
        /\ live = [builder |-> BarBuilder_init(pt, TRUE),
                   clock |-> TimeBarAggregator_set_build_timer(FALSE, 0, "SECOND", step),
                   next_close |-> TimeBarAggregator_get_interval("SECOND", step),
                   bars |-> <<>>,
                   ticks |-> <<>>]
        /\ stream \in Streams(0, StreamLen)
    /\ next_close = clock.next_event_time
    /\ position = None
    /\ propagates = FALSE
    /\ portfolio = None
    /\ emitted = <<>>
    /\ shared = None

\* The simulated aggregator takes the next tick of the feed.
FeedSim ==
    /\ Len(ticks) < Len(stream)
    /\ LET tick == stream[Len(ticks) + 1]
           r == TimeBarAggregator_update(builder, clock, next_close, bars, tick)
       IN
       /\ builder' = r.builder
       /\ bars' = r.bars
       /\ clock' = r.clock
       /\ next_close' = r.next_close
       /\ ticks' = Append(ticks, tick)
       /\ last' = [op |-> "update", n |-> last.n + 1]
    /\ UNCHANGED <<shared, step, live, stream, position, propagates, portfolio, emitted>>

\* The time the real-time clock has reached at least: the next tick of the feed
\* has not been stamped earlier than this.
LiveHorizon ==
    IF Len(live.ticks) < Len(stream) THEN stream[Len(live.ticks) + 1].timestamp
    ELSE LastTime(stream)

\* The real-time aggregator takes the next tick of the feed; every timer event
\* due before the tick's timestamp has been delivered.
FeedLive ==
    /\ Len(ticks) = Len(stream)
    /\ Len(live.ticks) < Len(stream)
    /\ LET tick == stream[Len(live.ticks) + 1]
           r == TimeBarAggregator_update(live.builder, live.clock, live.next_close,
                                         live.bars, tick)
       IN
       /\ live.clock.next_event_time >= tick.timestamp
       /\ live' = [builder |-> r.builder, clock |-> r.clock, next_close |-> r.next_close,
                   bars |-> r.bars, ticks |-> Append(live.ticks, tick)]
       /\ last' = [op |-> "live_update", n |-> last.n + 1]
    /\ UNCHANGED <<shared, builder, step, bars, ticks, clock, next_close, stream, position, propagates, portfolio, emitted>>

\* The real-time clock delivers the timer callback that is due.
LiveTimer ==
    /\ Len(ticks) = Len(stream)
    /\ live.clock.next_event_time <= LiveHorizon
    /\ LET f == LiveClock_fire(live.clock)
           r == TimeBarAggregator_build_event(live.builder, live.bars, f.event)
       IN
       /\ live' = [live EXCEPT !.builder = r.builder, !.bars = r.bars, !.clock = f.clock]
       /\ last' = [op |-> "live_timer", n |-> last.n + 1]
    /\ UNCHANGED <<shared, builder, step, bars, ticks, clock, next_close, stream, position, propagates, portfolio, emitted>>

NextLive == FeedSim \/ FeedLive \/ LiveTimer

SpecLive == InitLive /\ [][NextLive]_vars

\* Both aggregators have taken the whole feed and every due timer has fired.
BothDone ==
    /\ Len(ticks) = Len(stream)
    /\ Len(live.ticks) = Len(stream)
    /\ live.clock.next_event_time > LastTime(stream)

\* No tick of the feed is stamped exactly at a due time of the timer.
NoTickOnDueTime ==
    \A i \in 1..Len(stream) :
        \/ stream[i].timestamp <= clock.start_time
        \/ (stream[i].timestamp - clock.start_time) % clock.interval # 0

\* C3: for one feed, the aggregator on the simulation clock and the one on the
\* real-time clock emit the same sequence of bars.  (Feeds with a tick stamped
\* exactly at a due time, whose order of delivery the real-time clock leaves
\* open, are not counted against the claim.)
C3_SameBars == (BothDone /\ NoTickOnDueTime) => bars = live.bars

Flat(bar, px) ==
    /\ bar.open = px /\ bar.high = px /\ bar.low = px /\ bar.close = px
    /\ bar.volume = 0

\* C7: a build event that finds no tick applied since the previous time bar
\* still emits a bar, flat at the close of the bar before it.  On the simulation
\* clock these are the events after the first that one update drains; on the
\* real-time clock, a timer callback that finds count = 0.
C7_FlatBar ==
    [][ /\ \A k \in (Len(bars) + 2)..Len(bars') : Flat(bars'[k], bars'[k - 1].close)
        /\ (live'.clock # live.clock /\ live.builder.count = 0 /\ live.bars # <<>>) =>
              /\ Len(live'.bars) = Len(live.bars) + 1
              /\ Flat(live'.bars[Len(live'.bars)], live.bars[Len(live.bars)].close)
      ]_vars

HasFlatBar(out) ==
    \E k \in 2..Len(out) :
        /\ out[k - 1].close # None
        /\ out[k - 1].volume > 0
        /\ Flat(out[k], out[k - 1].close)

\* Both aggregators have emitted a bar for an interval without ticks.
C7_Witness == HasFlatBar(bars) /\ HasFlatBar(live.bars)

RECURSIVE SumBars(_)
SumBars(out) == IF out = <<>> THEN 0 ELSE out[1].volume + SumBars(Tail(out))

----------------------------------------------------------------------------
(* Position *)

FillKinds == {"OrderFilled", "OrderPartiallyFilled"}

\* The events offered to apply: fills of 1 (partial) or 2 (full) at 10 or 12,
\* a fill of quantity 0, a fill at price 0, and an event that is no fill.
OrderEvents ==
    { [kind |-> IF qty = 2 THEN "OrderFilled" ELSE "OrderPartiallyFilled",
       order_side |-> side, filled_quantity |-> qty, average_price |-> px] :
        side \in {"BUY", "SELL"}, qty \in 1..2, px \in {10, 12} }
    \cup { [kind |-> "OrderFilled", order_side |-> "BUY",
            filled_quantity |-> 0, average_price |-> 10],
           [kind |-> "OrderPartiallyFilled", order_side |-> "SELL",
            filled_quantity |-> 1, average_price |-> 0],
           [kind |-> "OrderAccepted", order_side |-> "BUY",
            filled_quantity |-> 1, average_price |-> 10] }

OrderEvent(e, t, id) ==
    [kind |-> e.kind, order_side |-> e.order_side,
     filled_quantity |-> e.filled_quantity, average_price |-> e.average_price,
     execution_time |-> t, execution_id |-> id, execution_ticket |-> id]

Abs(x) == IF x < 0 THEN -x ELSE x

Position_init ==
    [relative_quantity |-> 0,
     peak_quantity |-> 0,
     entry_time |-> None,
     exit_time |-> None,
     average_entry_price |-> None,
     average_exit_price |-> None,
     events |-> <<>>,
     execution_ids |-> <<>>,
     execution_tickets |-> <<>>]

Position_is_entered(p) == p.entry_time # None

Position_is_exited(p) == p.exit_time # None

Position_quantity(p) == Abs(p.relative_quantity)

\* _calculate_market_position with >= for >
Position_calculate_market_position_geq(p) ==
    IF p.relative_quantity >= 0 THEN "LONG"
    ELSE IF p.relative_quantity < 0 THEN "SHORT"
    ELSE "FLAT"

Position_calculate_market_position(p) ==
    IF p.relative_quantity > 0 THEN "LONG"
    ELSE IF p.relative_quantity < 0 THEN "SHORT"
    ELSE "FLAT"

Position_market_position(p) == Position_calculate_market_position(p)

\* Precondition.positive on quantity and average_price
Position_preconditions(quantity, average_price) == quantity > 0 /\ average_price > 0

\* _update_position that does not record the exit
Position_update_position_noExit(p, order_side, quantity, average_price, event_time) ==
    IF ~Position_preconditions(quantity, average_price) THEN p
    ELSE
    LET rq == IF order_side = "BUY" THEN p.relative_quantity + quantity
              ELSE IF order_side = "SELL" THEN p.relative_quantity - quantity
              ELSE p.relative_quantity
    IN [p EXCEPT
          !.relative_quantity = rq,
          !.peak_quantity = IF Abs(rq) > p.peak_quantity THEN rq ELSE @,
          !.entry_time = IF p.entry_time = None THEN event_time ELSE @,
          !.average_entry_price = average_price]

\* _update_position that takes the entry time from every fill
Position_update_position_lastEntry(p, order_side, quantity, average_price, event_time) ==
    IF ~Position_preconditions(quantity, average_price) THEN p
    ELSE
    LET rq == IF order_side = "BUY" THEN p.relative_quantity + quantity
              ELSE IF order_side = "SELL" THEN p.relative_quantity - quantity
              ELSE p.relative_quantity
        exited == rq = 0
    IN [p EXCEPT
          !.relative_quantity = rq,
          !.peak_quantity = IF Abs(rq) > p.peak_quantity THEN rq ELSE @,
          !.entry_time = event_time,
          !.average_entry_price = average_price,
          !.exit_time = IF exited THEN event_time ELSE @,
          !.average_exit_price = IF exited THEN average_price ELSE @]

\* _update_position; a failed precondition raises before anything is assigned
Position_update_position(p, order_side, quantity, average_price, event_time) ==
    IF ~Position_preconditions(quantity, average_price) THEN p
    ELSE
    LET rq == IF order_side = "BUY" THEN p.relative_quantity + quantity
              ELSE IF order_side = "SELL" THEN p.relative_quantity - quantity
              ELSE p.relative_quantity
        entry == IF p.entry_time = None THEN event_time ELSE p.entry_time
        exited == entry # None /\ rq = 0
    IN [p EXCEPT
          !.relative_quantity = rq,
          !.peak_quantity = IF Abs(rq) > p.peak_quantity THEN rq ELSE @,
          !.entry_time = entry,
          !.average_entry_price = average_price,
          !.exit_time = IF exited THEN event_time ELSE @,
          !.average_exit_price = IF exited THEN average_price ELSE @]

\* What apply raises inside: nothing, TypeError (the event is no fill) or
\* ValueError (a precondition of _update_position)
Position_raised(event) ==
    IF event.kind \notin FillKinds THEN "TypeError"
    ELSE IF ~Position_preconditions(event.filled_quantity, event.average_price)
         THEN "ValueError"
    ELSE "none"

\* apply.  The event is appended first.  apply (cpdef void) and
\* _update_position (cdef void) are declared without an except clause.  Built
\* with the Cython of the source's time (before 3.0) an exception raised in such
\* a function is reported as unraisable and the function returns: after a failed
\* precondition apply goes on to append the execution id and ticket, and its own
\* TypeError does not reach the caller.  Built with Cython 3 the exception leaves
\* both functions at the raise.  propagate tells the two builds apart.
Position_apply(p, event, propagate) ==
    LET p1 == [p EXCEPT !.events = Append(@, event)] IN
    IF event.kind \in FillKinds
    THEN LET p2 == Position_update_position(p1, event.order_side, event.filled_quantity,
                                            event.average_price, event.execution_time)
         IN IF propagate
                 /\ ~Position_preconditions(event.filled_quantity, event.average_price)
            THEN p1
            ELSE [p2 EXCEPT !.execution_ids = Append(@, event.execution_id),
                            !.execution_tickets = Append(@, event.execution_ticket)]
    ELSE p1

\* Whether the caller of apply sees the exception raised inside.
Position_surfaced(event, propagate) ==
    propagate /\ Position_raised(event) # "none"

\* ts_closed - ts_opened
Position_duration(p) == p.exit_time - p.entry_time

InitPos ==
    /\ position = Position_init
    /\ propagates \in BOOLEAN
    /\ portfolio = None
    /\ emitted = <<>>
    /\ shared = None
    /\ last = [op |-> "init", n |-> 0, accepted |-> 0]
    /\ builder = None
    /\ step = 0
    /\ bars = <<>>
    /\ ticks = <<>>
    /\ clock = None
    /\ next_close = None
    /\ live = None
    /\ stream = <<>>

\* Events arrive in execution-time order.
Apply ==
    /\ Len(position.events) < MaxFills
    /\ \E e \in OrderEvents, dt \in 0..1 :
        LET n == Len(position.events)
            t == IF n = 0 THEN dt ELSE position.events[n].execution_time + dt
            event == OrderEvent(e, t, n + 1)
        IN
        /\ position' = Position_apply(position, event, propagates)
        /\ last' = [op |-> "apply", n |-> n + 1, raised |-> Position_raised(event),
                    surfaced |-> Position_surfaced(event, propagates),
                    accepted |-> last.accepted
                                 + IF Position_raised(event) = "none" THEN 1 ELSE 0]
    /\ UNCHANGED <<shared, builder, step, bars, ticks, clock, next_close, live, stream,
                   propagates, portfolio, emitted>>

NextPos == Apply

SpecPos == InitPos /\ [][NextPos]_vars

\* C9: in every state, before the first fill too, the side is LONG iff the net
\* quantity is positive, SHORT iff it is negative, FLAT iff it is zero.
C9_SideFromNetQty ==
    /\ Position_market_position(position) = "LONG" <=> position.relative_quantity > 0
    /\ Position_market_position(position) = "SHORT" <=> position.relative_quantity < 0
    /\ Position_market_position(position) = "FLAT" <=> position.relative_quantity = 0
    /\ position.events = <<>> => Position_market_position(position) = "FLAT"

\* A long position was sold through to short.
C9_Witness ==
    /\ position.relative_quantity < 0
    /\ Position_market_position(position) = "SHORT"
    /\ \E i \in 1..Len(position.events) :
        position.events[i].order_side = "BUY" /\ position.events[i].filled_quantity = 1

\* The last event was an accepted fill and it brought the net quantity to zero.
JustClosed ==
    /\ last.op = "apply"
    /\ last.raised = "none"
    /\ position.relative_quantity = 0

\* C10 as claimed: after fills that return the net quantity to zero the side is
\* FLAT, the close time is the closing fill's and is strictly after the open
\* time, and the duration is their difference.
C10_ClosedStrictlyLater ==
    JustClosed =>
        /\ Position_market_position(position) = "FLAT"
        /\ position.exit_time = position.events[Len(position.events)].execution_time
        /\ position.exit_time > position.entry_time
        /\ Position_duration(position) = position.exit_time - position.entry_time

\* C10 as amended: the close time is the closing fill's and is not before the
\* open time (the two are equal when the closing fill carries the first fill's
\* execution time), so the duration is non-negative.
C10_ClosedNotEarlier ==
    JustClosed =>
        /\ Position_market_position(position) = "FLAT"
        /\ Position_is_entered(position) /\ Position_is_exited(position)
        /\ position.exit_time = position.events[Len(position.events)].execution_time
        /\ position.exit_time >= position.entry_time
        /\ Position_duration(position) >= 0

\* A position opened by a first fill that was accepted, closed at a later time.
C10_Witness ==
    /\ JustClosed
    /\ position.exit_time > position.entry_time
    /\ Len(position.events) >= 2

\* The signed quantity of a fill: bought quantity counts up, sold counts down.
Signed(event) ==
    IF event.order_side = "BUY" THEN event.filled_quantity ELSE 0 - event.filled_quantity

\* The fills of a log that passed the checks of apply.
Accepted(evs) == SelectSeq(evs, LAMBDA ev : Position_raised(ev) = "none")

\* The net quantity after the first i fills of a sequence of accepted fills.
RECURSIVE NetAfter(_, _)
NetAfter(fills, i) ==
    IF i = 0 THEN 0 ELSE NetAfter(fills, i - 1) + Signed(fills[i])

\* The largest absolute net quantity the position has been through.
MaxAbsNet(fills) ==
    LET S == { Abs(NetAfter(fills, i)) : i \in 0..Len(fills) }
    IN CHOOSE m \in S : \A x \in S : x <= m

\* The last call of apply was an accepted fill.
JustApplied ==
    /\ last.op = "apply"
    /\ last.raised = "none"

\* C11: after every successful apply the peak quantity is the maximum of the
\* absolute net quantity over all states the position has been in, hence
\* non-negative and never decreasing, for long and for short positions alike.
C11_PeakIsMaxAbs ==
    JustApplied =>
        /\ position.peak_quantity >= 0
        /\ position.peak_quantity = MaxAbsNet(Accepted(position.events))

\* The total quantity and the total notional of a sequence of fills.
RECURSIVE SumQty(_)
SumQty(fills) ==
    IF fills = <<>> THEN 0 ELSE fills[1].filled_quantity + SumQty(Tail(fills))

RECURSIVE SumNotional(_)
SumNotional(fills) ==
    IF fills = <<>> THEN 0
    ELSE fills[1].filled_quantity * fills[1].average_price + SumNotional(Tail(fills))

\* Every fill is on the side of the first one.
AllOpeningSide(fills) ==
    \A i \in 1..Len(fills) : fills[i].order_side = fills[1].order_side

\* Buy 2 @ 10 then buy 1 @ 12: the claim's buy 100 @ 10.0 then buy 50 @ 12.0
\* in units of 50.
BuyTwoThenOne ==
    LET fills == Accepted(position.events) IN
    /\ Len(fills) = 2
    /\ fills[1].order_side = "BUY" /\ fills[1].filled_quantity = 2
    /\ fills[1].average_price = 10
    /\ fills[2].order_side = "BUY" /\ fills[2].filled_quantity = 1
    /\ fills[2].average_price = 12

\* C12: after fills that are all on the opening side the average entry price is
\* the quantity-weighted average of their prices (avg * sum(qty) = sum(qty * px));
\* buy 2 @ 10 then buy 1 @ 12 gives 32/3 and a peak quantity of 3.
C12_WeightedAverageEntry ==
    LET fills == Accepted(position.events) IN
    /\ (JustApplied /\ AllOpeningSide(fills)) =>
            position.average_entry_price * SumQty(fills) = SumNotional(fills)
    /\ (JustApplied /\ BuyTwoThenOne) =>
            /\ position.average_entry_price * 3 = 32
            /\ position.peak_quantity = 3

\* The event handed to the last call of apply is no full or partial fill, or
\* its filled quantity or its average price is not positive.
LastEventInvalid ==
    /\ last.op = "apply"
    /\ LET event == position.events[Len(position.events)] IN
        \/ event.kind \notin FillKinds
        \/ event.filled_quantity <= 0
        \/ event.average_price <= 0

\* C13: apply is rejected with an error that reaches the caller whenever the
\* event is no full or partial fill, or its filled quantity is <= 0, or its
\* average price is not positive.
C13_RejectSurfaced ==
    LastEventInvalid => (last.raised # "none" /\ last.surfaced)

\* C14: a rejected apply (no fill, quantity or price not positive) leaves the
\* whole Position as it was before the call: event log, net and peak quantity,
\* entry and exit times, average prices, execution ids and tickets.
C14_RejectedLeavesState ==
    [][(last'.op = "apply" /\ last'.raised # "none") => position' = position]_vars

\* s is a prefix of t.
IsPrefix(s, t) ==
    /\ Len(s) <= Len(t)
    /\ \A i \in 1..Len(s) : s[i] = t[i]

\* C15: through any sequence of apply calls, rejected ones included, the event
\* log only grows at its end, holds full and partial fills only, and its length
\* (event_count) is the number of fills applied successfully.
C15_LogOfAppliedFills ==
    [][/\ IsPrefix(position.events, position'.events)
       /\ \A i \in 1..Len(position'.events) : position'.events[i].kind \in FillKinds
       /\ Len(position'.events) = last'.accepted]_vars

----------------------------------------------------------------------------
(* Portfolio.  portfolio.pxd declares its fields and methods; the bodies are *)
(* taken from the description of the portfolio's operations.  One strategy   *)
(* is registered, so the strategy_id argument selects nothing.               *)

OrderIds == {"O1", "O2"}
PositionIds == {"P1", "P2"}

EmptyMap == [k \in {} |-> None]

Put(m, k, v) == [x \in DOMAIN m \cup {k} |-> IF x = k THEN v ELSE m[x]]

Drop(m, k) == [x \in DOMAIN m \ {k} |-> m[x]]

\* The fills routed to the portfolio: 1 or 2 bought or sold at 10, and a fill
\* of quantity 0.
PortfolioFills ==
    { e \in OrderEvents : e.kind \in FillKinds /\ e.average_price = 10 }

\* A fill as the execution engine hands it over: it names its order.
PortfolioFill(e, t, id, order_id) ==
    [kind |-> e.kind, order_side |-> e.order_side,
     filled_quantity |-> e.filled_quantity, average_price |-> e.average_price,
     execution_time |-> t, execution_id |-> id, execution_ticket |-> id,
     order_id |-> order_id]

Portfolio_init ==
    [positions_active |-> EmptyMap,
     positions_closed |-> EmptyMap,
     order_p_index |-> EmptyMap]

Portfolio_is_flat(pf) == DOMAIN pf.positions_active = {}

\* The snapshot handed to the listener.
PositionEvent(type, position_id, p) ==
    [type |-> type, position_id |-> position_id,
     side |-> Position_market_position(p), quantity |-> Position_quantity(p)]

\* register_order that replaces the entry of an order id already registered.
Portfolio_register_order_overwrite(pf, order_id, position_id) ==
    [pf |-> [pf EXCEPT !.order_p_index = Put(@, order_id, position_id)],
     raised |-> "none"]

\* register_order: an order id is registered once.
Portfolio_register_order(pf, order_id, position_id) ==
    IF order_id \in DOMAIN pf.order_p_index
    THEN [pf |-> pf, raised |-> "PreconditionFailed"]
    ELSE [pf |-> [pf EXCEPT !.order_p_index = Put(@, order_id, position_id)],
          raised |-> "none"]

\* A lookup that takes an order never registered for an order of the first
\* position id.
Portfolio_position_id_default(pf, order_id) ==
    IF order_id \in DOMAIN pf.order_p_index THEN pf.order_p_index[order_id]
    ELSE "P1"

\* The position id the order index holds for an order id, "none" for an order
\* never registered.
Portfolio_position_id(pf, order_id) ==
    IF order_id \in DOMAIN pf.order_p_index THEN pf.order_p_index[order_id]
    ELSE "none"

\* The Position of an id: the one in the active or in the closed map, or a new
\* one.
Portfolio_fetch_or_create(pf, position_id) ==
    IF position_id \in DOMAIN pf.positions_active THEN pf.positions_active[position_id]
    ELSE IF position_id \in DOMAIN pf.positions_closed THEN pf.positions_closed[position_id]
    ELSE Position_init

\* The maps after the Position object of an id was changed where it is held.
Portfolio_held(pf, position_id, p) ==
    IF position_id \in DOMAIN pf.positions_active
    THEN [pf EXCEPT !.positions_active[position_id] = p]
    ELSE IF position_id \in DOMAIN pf.positions_closed
    THEN [pf EXCEPT !.positions_closed[position_id] = p]
    ELSE pf

\* handle_order_fill: the position id is looked up in the order index (the call
\* fails for an order never registered), the Position is fetched or created,
\* its side is taken before and after apply, and the two are compared.  An
\* exception that leaves apply leaves handle_order_fill too.
Portfolio_handle_order_fill(pf, event, propagate) ==
    LET position_id == Portfolio_position_id(pf, event.order_id) IN
    IF position_id = "none"
    THEN [pf |-> pf, out |-> <<>>, raised |-> "PreconditionFailed"]
    ELSE
    LET before == Portfolio_fetch_or_create(pf, position_id)
        after == Position_apply(before, event, propagate)
        side0 == Position_market_position(before)
        side1 == Position_market_position(after)
        changed == \/ after.relative_quantity # before.relative_quantity
                   \/ after.average_entry_price # before.average_entry_price
        held == Portfolio_held(pf, position_id, after)
        raised == Position_raised(event)
    IN
    IF Position_surfaced(event, propagate)
    THEN [pf |-> held, out |-> <<>>, raised |-> raised]
    ELSE IF side0 = "FLAT" /\ side1 # "FLAT"
    THEN [pf |-> [pf EXCEPT !.positions_active = Put(@, position_id, after),
                            !.positions_closed = Drop(@, position_id)],
          out |-> <<PositionEvent("PositionOpened", position_id, after)>>,
          raised |-> raised]
    ELSE IF side0 # "FLAT" /\ side1 # "FLAT"
    THEN [pf |-> held,
          out |-> IF changed
                  THEN <<PositionEvent("PositionChanged", position_id, after)>>
                  ELSE <<>>,
          raised |-> raised]
    ELSE IF side0 # "FLAT" /\ side1 = "FLAT"
    THEN [pf |-> [pf EXCEPT !.positions_active = Drop(@, position_id),
                            !.positions_closed = Put(@, position_id, after)],
          out |-> <<PositionEvent("PositionClosed", position_id, after)>>,
          raised |-> raised]
    ELSE [pf |-> held, out |-> <<>>, raised |-> raised]

\* check_residuals that takes closed positions for residuals too.
Portfolio_check_residuals_closed(pf) ==
    DOMAIN pf.positions_active \cup DOMAIN pf.positions_closed # {}

\* check_residuals: reports whether a Position is still active.
Portfolio_check_residuals(pf) == ~Portfolio_is_flat(pf)

\* reset that clears the positions and keeps the order index.
Portfolio_reset_keepIndex(pf) ==
    [Portfolio_init EXCEPT !.order_p_index = pf.order_p_index]

\* reset: clears all maps.
Portfolio_reset(pf) == Portfolio_init

InitPortfolio ==
    /\ portfolio = Portfolio_init
    /\ emitted = <<>>
    /\ shared = None
    /\ propagates \in BOOLEAN
    /\ last = [op |-> "init", n |-> 0, raised |-> "none", surfaced |-> FALSE,
               order_id |-> "none", reported |-> FALSE, known |-> {}]
    /\ position = None
    /\ builder = None
    /\ step = 0
    /\ bars = <<>>
    /\ ticks = <<>>
    /\ clock = None
    /\ next_close = None
    /\ live = None
    /\ stream = <<>>

RegisterOrder ==
    /\ last.n < MaxCalls
    /\ \E order_id \in OrderIds, position_id \in PositionIds :
        LET r == Portfolio_register_order(portfolio, order_id, position_id) IN
        /\ portfolio' = r.pf
        /\ last' = [last EXCEPT !.op = "register_order", !.n = @ + 1,
                                !.raised = r.raised,
                                !.surfaced = propagates /\ r.raised # "none",
                                !.order_id = order_id]
    /\ UNCHANGED <<shared, builder, step, bars, ticks, clock, next_close, live, stream, position,
                   propagates, emitted>>

\* Fills carry the time of the call, so they arrive in execution-time order.
\* known collects the position ids that took an accepted fill since the last
\* reset.
HandleOrderFill ==
    /\ last.n < MaxCalls
    /\ \E e \in PortfolioFills, order_id \in OrderIds :
        LET event == PortfolioFill(e, last.n, last.n + 1, order_id)
            r == Portfolio_handle_order_fill(portfolio, event, propagates)
            accepted == r.raised = "none"
        IN
        /\ portfolio' = r.pf
        /\ emitted' = emitted \o r.out
        /\ last' = [last EXCEPT !.op = "handle_order_fill", !.n = @ + 1,
                                !.raised = r.raised,
                                !.surfaced = propagates /\ r.raised # "none",
                                !.order_id = order_id,
                                !.known = IF accepted
                                          THEN @ \cup {Portfolio_position_id(portfolio, order_id)}
                                          ELSE @]
    /\ UNCHANGED <<shared, builder, step, bars, ticks, clock, next_close, live, stream, position,
                   propagates>>

CheckResiduals ==
    /\ last.n < MaxCalls
    /\ last' = [last EXCEPT !.op = "check_residuals", !.n = @ + 1,
                            !.raised = "none", !.surfaced = FALSE,
                            !.order_id = "none",
                            !.reported = Portfolio_check_residuals(portfolio)]
    /\ UNCHANGED <<shared, builder, step, bars, ticks, clock, next_close, live, stream, position,
                   propagates, portfolio, emitted>>

Reset ==
    /\ last.n < MaxCalls
    /\ portfolio' = Portfolio_reset(portfolio)
    /\ last' = [last EXCEPT !.op = "reset", !.n = @ + 1,
                            !.raised = "none", !.surfaced = FALSE,
                            !.order_id = "none", !.known = {}]
    /\ UNCHANGED <<shared, builder, step, bars, ticks, clock, next_close, live, stream, position,
                   propagates, emitted>>

NextPortfolio ==
    \/ RegisterOrder
    \/ HandleOrderFill
    \/ CheckResiduals
    \/ Reset

SpecPortfolio == InitPortfolio /\ [][NextPortfolio]_vars

\* The net quantity the portfolio holds for a position id, 0 when it holds no
\* Position of that id.
NetQty(pf, position_id) ==
    Portfolio_fetch_or_create(pf, position_id).relative_quantity

\* The lifecycle event types emitted for a position id, in order.
TypesFor(position_id) ==
    LET mine == SelectSeq(emitted, LAMBDA ev : ev.position_id = position_id)
    IN [i \in 1..Len(mine) |-> mine[i].type]

\* The lifecycle event a side transition calls for.
Expected(q0, q1) ==
    IF q0 = 0 /\ q1 # 0 THEN "PositionOpened"
    ELSE IF q0 # 0 /\ q1 # 0 THEN "PositionChanged"
    ELSE IF q0 # 0 /\ q1 = 0 THEN "PositionClosed"
    ELSE "none"

\* C16: handle_order_fill emits exactly one lifecycle event per accepted fill,
\* chosen by the side before and after the apply: FLAT -> non-FLAT emits
\* PositionOpened, non-FLAT -> non-FLAT PositionChanged, non-FLAT -> FLAT
\* PositionClosed; a fill that is not accepted emits none.  A buy and a sell
\* of the same quantity on one position yield PositionOpened (side LONG) then
\* PositionClosed (side FLAT).
C16_OneEventPerFill ==
    [][last'.op = "handle_order_fill" =>
        IF last'.raised # "none" THEN emitted' = emitted
        ELSE LET position_id == portfolio.order_p_index[last'.order_id]
                 q0 == NetQty(portfolio, position_id)
                 q1 == NetQty(portfolio', position_id)
                 ev == emitted'[Len(emitted')]
             IN /\ Len(emitted') = Len(emitted) + 1
                /\ SubSeq(emitted', 1, Len(emitted)) = emitted
                /\ ev.position_id = position_id
                /\ ev.type = Expected(q0, q1)
                /\ ev.side = (IF q1 > 0 THEN "LONG" ELSE IF q1 < 0 THEN "SHORT" ELSE "FLAT")
    ]_vars

\* One position was bought and then sold out by the next fill: PositionOpened
\* with side LONG, then PositionClosed with side FLAT.
C16_Witness ==
    /\ Len(emitted) = 2
    /\ emitted[1].type = "PositionOpened" /\ emitted[1].side = "LONG"
    /\ emitted[2].type = "PositionClosed" /\ emitted[2].side = "FLAT"
    /\ emitted[1].position_id = emitted[2].position_id
    /\ last.op = "handle_order_fill" /\ last.raised = "none"

\* C17: after any sequence of register_order, handle_order_fill and reset calls
\* every position id the portfolio has taken a fill for is in exactly one of
\* positions_active and positions_closed, and a position is in positions_active
\* iff its net quantity is not zero (its side is not FLAT), also when a closed
\* position takes a further fill.
C17_ActiveXorClosed ==
    LET active == DOMAIN portfolio.positions_active
        closed == DOMAIN portfolio.positions_closed
    IN /\ active \cap closed = {}
       /\ last.known \subseteq active \cup closed
       /\ active \cup closed \subseteq last.known
       /\ \A position_id \in active :
            portfolio.positions_active[position_id].relative_quantity # 0
       /\ \A position_id \in closed :
            portfolio.positions_closed[position_id].relative_quantity = 0

\* A position was opened, closed and opened again by a further fill.
C17_Witness ==
    \E position_id \in DOMAIN portfolio.positions_active :
        /\ TypesFor(position_id) = <<"PositionOpened", "PositionClosed", "PositionOpened">>
        /\ position_id \notin DOMAIN portfolio.positions_closed

C19_UnregisteredRejected ==
    [][(/\ last'.op = "handle_order_fill"
        /\ last'.order_id \notin DOMAIN portfolio.order_p_index) =>
            /\ last'.raised # "none"
            /\ portfolio'.positions_active = portfolio.positions_active
            /\ portfolio'.positions_closed = portfolio.positions_closed
            /\ portfolio'.order_p_index = portfolio.order_p_index
            /\ emitted' = emitted
    ]_vars

\* A fill for an unregistered order was refused while another order is
\* registered and its position is active.
C19_Witness ==
    /\ last.op = "handle_order_fill"
    /\ last.raised = "PreconditionFailed"
    /\ last.order_id \notin DOMAIN portfolio.order_p_index
    /\ DOMAIN portfolio.positions_active # {}

\* C20: check_residuals reports a failure iff a Position is in positions_active
\* at the time of the call, and changes none of the portfolio's maps.
C20_ResidualsIffActive ==
    [][last'.op = "check_residuals" =>
        /\ last'.reported <=> DOMAIN portfolio.positions_active # {}
        /\ portfolio' = portfolio
    ]_vars

\* check_residuals reported a failure for a position that was opened and then
\* changed by a second fill.
C20_Witness ==
    /\ last.op = "check_residuals"
    /\ last.reported
    /\ \E position_id \in DOMAIN portfolio.positions_active :
        TypesFor(position_id) = <<"PositionOpened", "PositionChanged">>

\* C21: after reset positions_active, positions_closed and the order index are
\* all empty, whatever registrations and fills came before, so handle_order_fill
\* no longer accepts an order id registered before the reset.
C21_ResetClears ==
    [][/\ last'.op = "reset" =>
            /\ DOMAIN portfolio'.positions_active = {}
            /\ DOMAIN portfolio'.positions_closed = {}
            /\ DOMAIN portfolio'.order_p_index = {}
       /\ (last.op = "reset" /\ last'.op = "handle_order_fill") =>
            /\ last'.raised = "PreconditionFailed"
            /\ portfolio' = portfolio
            /\ emitted' = emitted
    ]_vars

\* After a registration and a fill that opened a position the portfolio was
\* reset, and the next fill was refused.
C21_Witness ==
    /\ last.op = "handle_order_fill"
    /\ last.raised = "PreconditionFailed"
    /\ emitted # <<>>
    /\ DOMAIN portfolio.order_p_index = {}
    /\ DOMAIN portfolio.positions_active = {}
    /\ last.known = {}

----------------------------------------------------------------------------
(* Position events and their dictionary form.  Decimal values are integers   *)
(* in millionths; a decimal string is the pair of its digits and the number  *)
(* of digits after the point, which str(Decimal) and Decimal(str) carry over *)
(* exactly.                                                                  *)

PositionSides == {"LONG", "SHORT", "FLAT"}

\* realized_return values: 0, 0.1, 0.123456, 0.123455, -0.000005
ReturnValues == {0, 100000, 123456, 123455, 0 - 5}

\* str(d) of a Decimal d.
DecimalStr(d) == [digits |-> d, places |-> 6]

\* x / 10 rounded to the nearest integer, halves to the even one.
RoundHalfEven10(x) ==
    LET q == x \div 10
        r == x % 10
    IN IF r < 5 THEN q
       ELSE IF r > 5 THEN q + 1
       ELSE IF q % 2 = 0 THEN q ELSE q + 1

\* f"{d:.5f}" of a Decimal d: five digits after the point.
DecimalFormat5f(d) == [digits |-> RoundHalfEven10(d), places |-> 5]

\* Decimal(text)
DecimalParse(text) ==
    IF text.places = 6 THEN text.digits ELSE text.digits * 10

\* PositionEvent.__init__
PositionEvent_init(type, a, avg_px_close, ts_closed_ns, duration_ns) ==
    [type |-> type, position_id |-> a.position_id, side |-> a.side,
     net_qty |-> a.net_qty, avg_px_open |-> a.avg_px_open,
     avg_px_close |-> avg_px_close,
     realized_points |-> a.realized_points,
     realized_return |-> a.realized_return,
     realized_pnl |-> a.realized_pnl,
     ts_opened_ns |-> a.ts_opened_ns,
     ts_closed_ns |-> ts_closed_ns, duration_ns |-> duration_ns]

\* What a constructor or from_dict gives: the exception raised, or the event.
Raised(exception) == [raised |-> exception, event |-> <<>>]

Returned(event) == [raised |-> "none", event |-> <<event>>]

\* PositionOpened.__init__ that hands the close price and the close times it
\* is given on to the base class
PositionOpened_init_keepClosed(a) ==
    IF a.side = "FLAT" THEN Raised("AssertionError")
    ELSE Returned(PositionEvent_init("PositionOpened", a, a.avg_px_close,
                                     a.ts_closed_ns, a.duration_ns))

\* PositionOpened.__init__: the side is checked, avg_px_close is None and
\* ts_closed_ns and duration_ns are 0.
PositionOpened_init(a) ==
    IF a.side = "FLAT" THEN Raised("AssertionError")
    ELSE Returned(PositionEvent_init("PositionOpened", a, None, 0, 0))

\* PositionChanged.__init__: the side is checked, ts_closed_ns and duration_ns
\* are 0.
PositionChanged_init(a) ==
    IF a.side = "FLAT" THEN Raised("AssertionError")
    ELSE Returned(PositionEvent_init("PositionChanged", a, a.avg_px_close, 0, 0))

\* PositionClosed.__init__: avg_px_close is declared not None, the side is
\* checked.
PositionClosed_init(a) ==
    IF a.avg_px_close = None THEN Raised("TypeError")
    ELSE IF a.side # "FLAT" THEN Raised("AssertionError")
    ELSE Returned(PositionEvent_init("PositionClosed", a, a.avg_px_close,
                                     a.ts_closed_ns, a.duration_ns))

\* A false value in Python: None or a Decimal equal to zero.
DecimalFalsy(d) == d = None \/ d = 0

\* The entries every to_dict_c writes.  An entry that may be None is a sequence:
\* empty for None, else holding the string.
PositionEvent_to_dict(obj) ==
    [type |-> obj.type, position_id |-> obj.position_id, side |-> obj.side,
     net_qty |-> DecimalStr(obj.net_qty),
     avg_px_open |-> DecimalStr(obj.avg_px_open),
     avg_px_close |-> IF DecimalFalsy(obj.avg_px_close) THEN <<>>
                      ELSE <<DecimalStr(obj.avg_px_close)>>,
     realized_points |-> DecimalStr(obj.realized_points),
     realized_return |-> DecimalFormat5f(obj.realized_return),
     realized_pnl |-> DecimalStr(obj.realized_pnl),
     ts_opened_ns |-> obj.ts_opened_ns,
     ts_closed_ns |-> obj.ts_closed_ns,
     duration_ns |-> obj.duration_ns]

PositionOpened_to_dict(obj) == PositionEvent_to_dict(obj)

PositionChanged_to_dict(obj) == PositionEvent_to_dict(obj)

PositionClosed_to_dict(obj) == PositionEvent_to_dict(obj)

\* The constructor arguments every from_dict_c reads the same way.
PositionEvent_from_dict(values, avg_px_close) ==
    [position_id |-> values.position_id, side |-> values.side,
     net_qty |-> DecimalParse(values.net_qty),
     avg_px_open |-> DecimalParse(values.avg_px_open),
     avg_px_close |-> avg_px_close,
     realized_points |-> DecimalParse(values.realized_points),
     realized_return |-> DecimalParse(values.realized_return),
     realized_pnl |-> DecimalParse(values.realized_pnl),
     ts_opened_ns |-> values.ts_opened_ns,
     ts_closed_ns |-> values.ts_closed_ns,
     duration_ns |-> values.duration_ns]

\* from_dict_c of PositionOpened does not read avg_px_close.
PositionOpened_from_dict(values) ==
    PositionOpened_init(PositionEvent_from_dict(values, None))

\* from_dict_c of PositionChanged: Decimal(value) if value else None
PositionChanged_from_dict(values) ==
    PositionChanged_init(PositionEvent_from_dict(values,
        IF values.avg_px_close = <<>> THEN None
        ELSE DecimalParse(values.avg_px_close[1])))

\* from_dict_c of PositionClosed: Decimal(value), a TypeError for None.
PositionClosed_from_dict(values) ==
    IF values.avg_px_close = <<>> THEN Raised("TypeError")
    ELSE PositionClosed_init(PositionEvent_from_dict(values,
            DecimalParse(values.avg_px_close[1])))

EventTypes == {"PositionOpened", "PositionChanged", "PositionClosed"}

\* The constructor arguments tried: a net quantity that agrees with the side,
\* a close price that is None, zero or 10, and times of 0 or 3.
EventArgs ==
    { [position_id |-> "P1", side |-> side,
       net_qty |-> (IF side = "LONG" THEN 2 ELSE IF side = "SHORT" THEN 0 - 2 ELSE 0),
       avg_px_open |-> 10, avg_px_close |-> avg_px_close,
       realized_points |-> 0, realized_return |-> realized_return,
       realized_pnl |-> 0, ts_opened_ns |-> 1,
       ts_closed_ns |-> ts, duration_ns |-> ts] :
        side \in PositionSides, avg_px_close \in {None, 0, 10},
        realized_return \in ReturnValues, ts \in {0, 3} }

PositionEvent_construct(type, a) ==
    IF type = "PositionOpened" THEN PositionOpened_init(a)
    ELSE IF type = "PositionChanged" THEN PositionChanged_init(a)
    ELSE PositionClosed_init(a)

InitEvents ==
    /\ emitted = <<>>
    /\ shared = None
    /\ last = [op |-> "init"]
    /\ portfolio = None
    /\ propagates = FALSE
    /\ position = None
    /\ builder = None
    /\ step = 0
    /\ bars = <<>>
    /\ ticks = <<>>
    /\ clock = None
    /\ next_close = None
    /\ live = None
    /\ stream = <<>>

\* An event is constructed.
Construct ==
    /\ last.op = "init"
    /\ \E type \in EventTypes, a \in EventArgs :
        LET r == PositionEvent_construct(type, a) IN
        /\ emitted' = r.event
        /\ last' = [op |-> "construct", raised |-> r.raised]
    /\ UNCHANGED <<shared, builder, step, bars, ticks, clock, next_close, live, stream, position,
                   propagates, portfolio>>

\* to_dict of the event's class.
ToDict ==
    /\ last.op = "construct"
    /\ emitted # <<>>
    /\ LET obj == emitted[1] IN
        last' = [op |-> "to_dict",
                 values |-> IF obj.type = "PositionOpened" THEN PositionOpened_to_dict(obj)
                            ELSE IF obj.type = "PositionChanged"
                            THEN PositionChanged_to_dict(obj)
                            ELSE PositionClosed_to_dict(obj)]
    /\ UNCHANGED <<shared, builder, step, bars, ticks, clock, next_close, live, stream, position,
                   propagates, portfolio, emitted>>

\* from_dict of the class the dictionary names.
FromDict ==
    /\ last.op = "to_dict"
    /\ LET values == last.values
           r == IF values.type = "PositionOpened" THEN PositionOpened_from_dict(values)
                ELSE IF values.type = "PositionChanged"
                THEN PositionChanged_from_dict(values)
                ELSE PositionClosed_from_dict(values)
       IN last' = [op |-> "from_dict", raised |-> r.raised, event |-> r.event]
    /\ UNCHANGED <<shared, builder, step, bars, ticks, clock, next_close, live, stream, position,
                   propagates, portfolio, emitted>>

NextEvents ==
    \/ Construct
    \/ ToDict
    \/ FromDict

SpecEvents == InitEvents /\ [][NextEvents]_vars

\* C22: for every PositionOpened, PositionChanged and PositionClosed event e,
\* from_dict(to_dict(e)) equals e field for field, avg_px_close (also when it is
\* zero or absent), realized_return at full precision, ts_closed_ns and
\* duration_ns included.
C22_DictRoundTrip ==
    last.op = "from_dict" =>
        /\ last.raised = "none"
        /\ last.event = emitted

----------------------------------------------------------------------------
(* Realized result of a closed position.  position.pyx keeps the two average *)
(* prices only; the realized fields the events copy are computed from them   *)
(* as described for the closing fill: points are the price difference in the *)
(* direction of the entry, the return is points over the open price (in      *)
(* millionths), the profit is points times the quantity closed.  They are    *)
(* unset until the position has an exit price.                               *)

\* The side of the fill that opened the position.
Position_entry(p) == Accepted(p.events)[1].order_side

\* The quantity filled on the entry side.
Position_entry_quantity(p) ==
    SumQty(SelectSeq(Accepted(p.events),
                     LAMBDA ev : ev.order_side = Position_entry(p)))

Position_realized_points(p) ==
    IF p.average_exit_price = None THEN None
    ELSE IF Position_entry(p) = "BUY"
    THEN p.average_exit_price - p.average_entry_price
    ELSE p.average_entry_price - p.average_exit_price

Position_realized_return(p) ==
    IF p.average_exit_price = None THEN None
    ELSE (Position_realized_points(p) * 1000000) \div p.average_entry_price

Position_realized_pnl(p) ==
    IF p.average_exit_price = None THEN None
    ELSE Position_realized_points(p) * Position_entry_quantity(p)

\* PositionClosed.create_c: the constructor arguments are copied off the
\* position.
PositionClosed_create(position_id, p) ==
    PositionClosed_init(
        [position_id |-> position_id,
         side |-> Position_market_position(p),
         net_qty |-> p.relative_quantity,
         avg_px_open |-> p.average_entry_price,
         avg_px_close |-> p.average_exit_price,
         realized_points |-> Position_realized_points(p),
         realized_return |-> Position_realized_return(p),
         realized_pnl |-> Position_realized_pnl(p),
         ts_opened_ns |-> p.entry_time,
         ts_closed_ns |-> p.exit_time,
         duration_ns |-> Position_duration(p)])

\* All accepted fills of the log were made at one price.
OnePrice(fills) ==
    \A i \in 1..Len(fills) : fills[i].average_price = fills[1].average_price

\* C23: a position opened by fills at a price p and closed in full by opposite
\* fills at the same price p has realized points, return and profit of zero,
\* on the position and on the PositionClosed event created from it.
C23_FlatRoundTripZero ==
    (JustClosed /\ OnePrice(Accepted(position.events))) =>
        LET r == PositionClosed_create("P1", position) IN
        /\ Position_realized_points(position) = 0
        /\ Position_realized_return(position) = 0
        /\ Position_realized_pnl(position) = 0
        /\ r.raised = "none"
        /\ r.event[1].realized_points = 0
        /\ r.event[1].realized_return = 0
        /\ r.event[1].realized_pnl = 0
        /\ r.event[1].side = "FLAT"

\* Two partial buys at 12 were closed by one sell of 2 at 12.
C23_Witness ==
    /\ JustClosed
    /\ OnePrice(Accepted(position.events))
    /\ Len(Accepted(position.events)) = 3
    /\ Position_entry(position) = "BUY"
    /\ position.average_exit_price = 12

----------------------------------------------------------------------------
(* Prices and sizes of built bars *)

\* A price at the precision of the quotes: a whole number of price increments
\* (prices are counted in half increments).
AtPrecision(px) == px % 2 = 0

\* px is the midpoint of the tick's bid and ask rounded to the precision.
IsRoundedMid(px, tick) ==
    /\ AtPrecision(px)
    /\ 2 * px - (tick.bid + tick.ask) \in (0 - 2)..2

\* C24: the close of every built bar is, for price type MID, the midpoint
\* (bid + ask) / 2 of the last tick applied before the build rounded to the
\* precision, and for BID and ASK that tick's bid or ask.
C24_CloseOfLastTick ==
    \A k \in 1..Len(bars) :
        LET tick == ticks[k * step] IN
        /\ builder.price_type = "BID" => bars[k].close = tick.bid
        /\ builder.price_type = "ASK" => bars[k].close = tick.ask
        /\ builder.price_type = "MID" => IsRoundedMid(bars[k].close, tick)

\* C25: a price type other than BID, ASK or MID is rejected when the builder is
\* constructed, so no builder of such a type exists and no update(tick) fails
\* on it later.
C25_PriceTypeCheckedAtConstruction ==
    /\ builder.price_type \in PriceTypes
    /\ last.op = "update" => last.raised = "none"

\* C26: each completed bar is handed to the handler exactly once and in the
\* order it was built, which is the order in which the triggering ticks were
\* applied: an update only appends to what was delivered, one bar for each
\* interval that ended by its tick, and the delivered timestamps never go back.
C26_DeliveredOnceInOrder ==
    [][/\ IsPrefix(bars, bars')
       /\ Len(bars') = DueCount(clock, LastTime(ticks'))
       /\ \A i \in 1..(Len(bars') - 1) : bars'[i].timestamp <= bars'[i + 1].timestamp
       /\ \A i \in (Len(bars) + 1)..Len(bars') :
            /\ bars'[i].timestamp <= LastTime(ticks')
            /\ bars'[i].timestamp > SimNow
    ]_vars

\* One tick closed two intervals at once, after an earlier tick had closed one.
C26_Witness ==
    /\ Len(ticks) = 2
    /\ Len(bars) >= 3
    /\ bars[1].timestamp <= ticks[1].timestamp
    /\ bars[2].timestamp > ticks[1].timestamp

\* The price a tick has for a price type.
TickPrice(price_type, tick) ==
    IF price_type = "BID" THEN tick.bid
    ELSE IF price_type = "ASK" THEN tick.ask
    ELSE (tick.bid + tick.ask) \div 2

\* The step is the first update since construction or since the last build.
FirstUpdate ==
    /\ last'.op = "update"
    /\ last'.raised = "none"
    /\ builder.count = 0

\* C27 as claimed: on the first update(tick) after any reset of the builder
\* (construction or build, under either reset policy) open, high, low and close
\* are all set to the tick's price.
C27_FirstUpdateSeedsAll ==
    [][FirstUpdate =>
        LET price == TickPrice(builder.price_type, last'.tick) IN
        /\ builder'.open = price /\ builder'.high = price
        /\ builder'.low = price /\ builder'.close = price
    ]_vars

\* C27 as amended: the first update seeds all four prices when the reset left
\* them null (construction, a build without use_previous_close, or a build of a
\* builder that held no price).  After a build that carried the close c over,
\* open stays c, high and low widen from c to the tick's price, and close is
\* the tick's price.
C27_FirstUpdateSeedsOrCarries ==
    [][FirstUpdate =>
        LET price == TickPrice(builder.price_type, last'.tick) IN
        IF builder.open = None
        THEN /\ builder'.open = price /\ builder'.high = price
             /\ builder'.low = price /\ builder'.close = price
        ELSE /\ builder.use_previous_close
             /\ builder.high = builder.open /\ builder.low = builder.open
             /\ builder'.open = builder.open
             /\ builder'.high = (IF price > builder.open THEN price ELSE builder.open)
             /\ builder'.low = (IF price < builder.open THEN price ELSE builder.open)
             /\ builder'.close = price
    ]_vars

\* The first update after a build that carried a close over came at a higher
\* price: open is still the carried close.
C27_Witness ==
    /\ last.op = "update"
    /\ builder.count = 1
    /\ builder.use_previous_close
    /\ builder.open < builder.close
    /\ builder.high = builder.close
    /\ builder.low = builder.open

\* C28: on every update after the first since a reset high becomes
\* max(high, price) and low becomes min(low, price); at most one of the two
\* changes in one call, a price equal to the current high or low changes
\* neither, open is unchanged and close becomes the tick's price.
C28_LaterUpdateWidens ==
    [][(last'.op = "update" /\ last'.raised = "none" /\ builder.count >= 1) =>
        LET price == TickPrice(builder.price_type, last'.tick) IN
        /\ builder'.high = (IF price > builder.high THEN price ELSE builder.high)
        /\ builder'.low = (IF price < builder.low THEN price ELSE builder.low)
        /\ builder'.high = builder.high \/ builder'.low = builder.low
        /\ (price = builder.high \/ price = builder.low) =>
                (builder'.high = builder.high /\ builder'.low = builder.low)
        /\ builder'.open = builder.open
        /\ builder'.close = price
    ]_vars

\* A third update since the reset raised the high after the second had lowered
\* the low.
C28_Witness ==
    /\ last.op = "update"
    /\ builder.count >= 3
    /\ builder.low < builder.open
    /\ builder.open < builder.high
    /\ builder.close = builder.high

\* C29: after build() count and accumulated volume are 0; with
\* use_previous_close open, high, low and close all equal the close of the bar
\* just built, otherwise all four are null.
C29_ResetAfterBuild ==
    last.op = "build" =>
        /\ builder.count = 0
        /\ builder.volume = 0
        /\ builder.use_previous_close =>
            /\ builder.open = last.bar.close /\ builder.high = last.bar.close
            /\ builder.low = last.bar.close /\ builder.close = last.bar.close
        /\ ~builder.use_previous_close =>
            /\ builder.open = None /\ builder.high = None
            /\ builder.low = None /\ builder.close = None

\* A bar with volume that closed away from its open was built and its close
\* carried over.
C29_Witness ==
    /\ last.op = "build"
    /\ builder.use_previous_close
    /\ last.bar.volume > 0
    /\ last.bar.open # last.bar.close
    /\ builder.open = last.bar.close

\* The size a tick has for a price type; for MID an odd total is truncated.
TickSize(price_type, tick) ==
    IF price_type = "BID" THEN tick.bid_size
    ELSE IF price_type = "ASK" THEN tick.ask_size
    ELSE (tick.bid_size + tick.ask_size) \div 2

RECURSIVE SumSize(_, _)
SumSize(price_type, seq) ==
    IF seq = <<>> THEN 0
    ELSE TickSize(price_type, seq[1]) + SumSize(price_type, Tail(seq))

\* C30: the volume of a built bar is the sum, over the ticks applied since the
\* previous build, of bid_size for BID, ask_size for ASK and
\* floor((bid_size + ask_size) / 2) for MID, and the count is the number of
\* those ticks; the same holds of the bar in progress.
C30_VolumeIsSumOfSizes ==
    LET pending == SubSeq(ticks, Len(bars) * step + 1, Len(ticks)) IN
    /\ \A k \in 1..Len(bars) :
        bars[k].volume =
            SumSize(builder.price_type, SubSeq(ticks, (k - 1) * step + 1, k * step))
    /\ builder.volume = SumSize(builder.price_type, pending)
    /\ builder.count = Len(pending)

\* A MID bar of two ticks whose sizes both add up to an odd total.
C30_Witness ==
    /\ builder.price_type = "MID"
    /\ step = 2
    /\ Len(bars) >= 1
    /\ (ticks[1].bid_size + ticks[1].ask_size) % 2 = 1
    /\ (ticks[2].bid_size + ticks[2].ask_size) % 2 = 1
    /\ bars[1].volume = 2

----------------------------------------------------------------------------
(* Each tick bar against the reference aggregation of its own ticks *)

RECURSIVE MaxPrice(_, _)
MaxPrice(price_type, seq) ==
    IF Len(seq) = 1 THEN TickPrice(price_type, seq[1])
    ELSE LET m == MaxPrice(price_type, Tail(seq))
             p == TickPrice(price_type, seq[1])
         IN IF p > m THEN p ELSE m

RECURSIVE MinPrice(_, _)
MinPrice(price_type, seq) ==
    IF Len(seq) = 1 THEN TickPrice(price_type, seq[1])
    ELSE LET m == MinPrice(price_type, Tail(seq))
             p == TickPrice(price_type, seq[1])
         IN IF p < m THEN p ELSE m

\* C31: each bar emitted by a TickBarAggregator with step N equals the
\* reference aggregation of its own N ticks only: open is the first tick's
\* price, high the maximum, low the minimum, close the last tick's price,
\* volume the sum of the sizes and timestamp the last tick's timestamp; nothing
\* is carried over from the bar before.
C31_BarOfOwnTicks ==
    \A k \in 1..Len(bars) :
        LET group == SubSeq(ticks, (k - 1) * step + 1, k * step)
            pt == builder.price_type
        IN
        bars[k] = [open |-> TickPrice(pt, group[1]),
                   high |-> MaxPrice(pt, group),
                   low |-> MinPrice(pt, group),
                   close |-> TickPrice(pt, group[step]),
                   volume |-> SumSize(pt, group),
                   timestamp |-> group[step].timestamp]

\* A second bar of two ticks lies wholly below the bar before it, whose own
\* two ticks differ: neither its high nor its low reaches the second bar.
C31_Witness ==
    /\ step = 2
    /\ Len(bars) >= 2
    /\ bars[1].low < bars[1].high
    /\ bars[2].high < bars[1].low

----------------------------------------------------------------------------
(* Construction of a TimeBarAggregator on a clock that holds no timer yet *)

TimeStructures == {"SECOND", "MINUTE", "HOUR", "DAY"}

\* The bar structures a specification can carry: TICK is one _get_interval has
\* no branch for.
AllStructures == TimeStructures \cup {"TICK"}

\* The times the clock shows at construction: on and off the boundaries of a
\* second, a minute, an hour and a day.
ClockTimes == {0, 61, 3600, 3661, 86400, 90061}

\* A clock no timer has been set on.
Clock_init(is_test_clock, now) ==
    [is_test_clock |-> is_test_clock,
     time |-> now,
     start_time |-> None,
     interval |-> None,
     next_event_time |-> None,
     pending |-> <<>>]

\* _get_interval raises ValueError in its last branch.
TimeBarAggregator_raised(structure) ==
    IF structure \in TimeStructures THEN "none" ELSE "ValueError"

\* TimeBarAggregator.__init__ on clock c: the builder is made by the base
\* class, then interval is computed (and may raise), next_close is read from
\* the clock and only then the build timer is set.
TimeBarAggregator_init(c, price_type, structure, n) ==
    IF TimeBarAggregator_raised(structure) # "none"
    THEN [raised |-> TimeBarAggregator_raised(structure),
          builder |-> None, interval |-> None, next_close |-> None, clock |-> c]
    ELSE [raised |-> "none",
          builder |-> BarBuilder_init(price_type, TRUE),
          interval |-> TimeBarAggregator_get_interval(structure, n),
          next_close |-> c.next_event_time,
          clock |-> TimeBarAggregator_set_build_timer(c.is_test_clock, c.time,
                                                      structure, n)]

InitConstruct ==
    /\ \E is_test_clock \in BOOLEAN, now \in ClockTimes :
        clock = Clock_init(is_test_clock, now)
    /\ builder = None
    /\ step = 0
    /\ bars = <<>>
    /\ ticks = <<>>
    /\ last = [op |-> "init", n |-> 0]
    /\ next_close = None
    /\ live = None
    /\ stream = <<>>
    /\ position = None
    /\ propagates = FALSE
    /\ portfolio = None
    /\ emitted = <<>>
    /\ shared = None

\* TimeBarAggregator(bar_type, handler, clock, logger)
ConstructTime ==
    /\ last.op = "init"
    /\ \E pt \in PriceTypes, structure \in AllStructures, n \in 1..MaxStep :
        LET r == TimeBarAggregator_init(clock, pt, structure, n) IN
        /\ builder' = r.builder
        /\ clock' = r.clock
        /\ next_close' = r.next_close
        /\ step' = n
        /\ last' = [op |-> "construct", n |-> 1, structure |-> structure,
                    raised |-> r.raised, interval |-> r.interval]
    /\ UNCHANGED <<shared, bars, ticks, live, stream, position, propagates, portfolio, emitted>>

NextConstruct == ConstructTime

SpecConstruct == InitConstruct /\ [][NextConstruct]_vars

\* C32: constructing a TimeBarAggregator computes interval = unit(structure) *
\* step for SECOND, MINUTE, HOUR and DAY, and the timer is set with that
\* interval; for any other structure construction fails with an error and no
\* timer is left registered with the clock.
C32_IntervalOrError ==
    last.op = "construct" =>
        /\ (last.structure = "SECOND" => last.interval = step)
        /\ (last.structure = "MINUTE" => last.interval = 60 * step)
        /\ (last.structure = "HOUR" => last.interval = 3600 * step)
        /\ (last.structure = "DAY" => last.interval = 86400 * step)
        /\ (last.structure \in TimeStructures =>
                /\ last.raised = "none"
                /\ clock.interval = last.interval
                /\ clock.next_event_time = clock.start_time + last.interval)
        /\ (last.structure \notin TimeStructures =>
                /\ last.raised # "none"
                /\ clock.interval = None
                /\ clock.start_time = None
                /\ clock.next_event_time = None
                /\ clock.pending = <<>>)

\* An aggregator of three-minute bars was constructed off the minute boundary:
\* its timer is due three minutes after the start of the minute.
C32_Witness ==
    /\ last.op = "construct"
    /\ last.structure = "MINUTE"
    /\ step = 3
    /\ last.interval = 180
    /\ clock.time = 61
    /\ clock.next_event_time = 240

----------------------------------------------------------------------------
(* Open time and average close price of the Position *)

\* C33: the open time of a Position is set by its first successfully applied
\* fill to that fill's execution time and is never changed by any later fill,
\* fills applied after the position has been closed included; until such a
\* fill it is unset.
C33_OpenTimeOfFirstFill ==
    LET fills == Accepted(position.events) IN
    IF fills = <<>> THEN position.entry_time = None
    ELSE position.entry_time = fills[1].execution_time

\* A position was opened, closed at a later time and then given a further
\* fill later still, which made it long or short again.
C33_Witness ==
    /\ Len(Accepted(position.events)) = 3
    /\ Position_is_exited(position)
    /\ position.relative_quantity # 0
    /\ position.entry_time < position.exit_time
    /\ position.exit_time < position.events[3].execution_time
    /\ position.entry_time = position.events[1].execution_time

\* Fill i of a sequence of accepted fills reduces the exposure: the position
\* was long or short before it and the fill is on the other side.
Reducing(fills, i) == NetAfter(fills, i - 1) * Signed(fills[i]) < 0

\* The reducing fills among the first i.
RECURSIVE ReducingUpTo(_, _)
ReducingUpTo(fills, i) ==
    IF i = 0 THEN <<>>
    ELSE ReducingUpTo(fills, i - 1)
         \o (IF Reducing(fills, i) THEN <<fills[i]>> ELSE <<>>)

\* The fills so far are one life of the position: it has stayed on the side it
\* was opened on, and only the last fill may have brought it to flat.
OneLife(fills) ==
    /\ fills # <<>>
    /\ \A i \in 1..(Len(fills) - 1) : NetAfter(fills, i) * NetAfter(fills, 1) > 0
    /\ NetAfter(fills, Len(fills)) * NetAfter(fills, 1) >= 0

\* C34: avg_px_close is unset until the first fill that reduces exposure
\* toward flat, is set from then on, and after the closing fill is the
\* quantity-weighted average price of the reducing fills (not merely the last
\* fill's price).
C34_AverageOfReducingFills ==
    LET fills == Accepted(position.events)
        reducing == ReducingUpTo(fills, Len(fills))
    IN
    (JustApplied /\ OneLife(fills)) =>
        IF reducing = <<>> THEN position.average_exit_price = None
        ELSE /\ position.average_exit_price # None
             /\ position.relative_quantity = 0 =>
                  position.average_exit_price * SumQty(reducing) = SumNotional(reducing)

----------------------------------------------------------------------------
(* The lifecycle events the Portfolio creates from its positions *)

\* The constructor arguments create_c copies off the position.
PositionEvent_create_args(position_id, p) ==
    [position_id |-> position_id,
     side |-> Position_market_position(p),
     net_qty |-> p.relative_quantity,
     avg_px_open |-> p.average_entry_price,
     avg_px_close |-> p.average_exit_price,
     realized_points |-> Position_realized_points(p),
     realized_return |-> Position_realized_return(p),
     realized_pnl |-> Position_realized_pnl(p),
     ts_opened_ns |-> p.entry_time,
     ts_closed_ns |-> p.exit_time,
     duration_ns |-> Position_duration(p)]

\* PositionOpened.create_c
PositionOpened_create(position_id, p) ==
    PositionOpened_init(PositionEvent_create_args(position_id, p))

\* PositionChanged.create_c
PositionChanged_create(position_id, p) ==
    PositionChanged_init(PositionEvent_create_args(position_id, p))

\* create_c of the variant the Portfolio chose
PositionEvent_create(type, position_id, p) ==
    IF type = "PositionOpened" THEN PositionOpened_create(position_id, p)
    ELSE IF type = "PositionChanged" THEN PositionChanged_create(position_id, p)
    ELSE PositionClosed_create(position_id, p)

\* What the claim says of a constructed event.
WellFormedEvent(ev) ==
    /\ ev.type \in {"PositionOpened", "PositionChanged"} =>
        /\ ev.side # "FLAT"
        /\ ev.ts_closed_ns = 0
        /\ ev.duration_ns = 0
    /\ ev.type = "PositionOpened" => ev.avg_px_close = None
    /\ ev.type = "PositionClosed" => ev.side = "FLAT"

\* Every event a constructor returns, for all the arguments tried, is well
\* formed.
ConstructedEventsWellFormed ==
    \A type \in EventTypes, a \in EventArgs :
        LET r == PositionEvent_construct(type, a) IN
        r.raised = "none" => WellFormedEvent(r.event[1])

\* C35: every constructed PositionOpened and PositionChanged event has side
\* not FLAT, ts_closed_ns = 0 and duration_ns = 0 (PositionOpened has
\* avg_px_close unset too), and every PositionClosed event has side FLAT; so
\* for every lifecycle event the Portfolio emits for a side transition, the
\* constructor of its variant accepts the position it is created from (no
\* assertion fails) and the event's side agrees with the net quantity.
C35_EmittedEventsWellFormed ==
    [][Len(emitted') > Len(emitted) =>
        LET ev == emitted'[Len(emitted')]
            p == Portfolio_fetch_or_create(portfolio', ev.position_id)
            r == PositionEvent_create(ev.type, ev.position_id, p)
        IN
        /\ ConstructedEventsWellFormed
        /\ r.raised = "none"
        /\ WellFormedEvent(r.event[1])
        /\ r.event[1].side = ev.side
        /\ r.event[1].side = "FLAT" <=> r.event[1].net_qty = 0
    ]_vars

\* One position was opened, changed, closed and then opened again by a further
\* fill: the second PositionOpened is created from a position that holds a
\* close time and a close price.
C35_Witness ==
    /\ TypesFor("P1") = <<"PositionOpened", "PositionChanged", "PositionClosed",
                          "PositionOpened">>
    /\ "P1" \in DOMAIN portfolio.positions_active
    /\ portfolio.positions_active["P1"].exit_time # None
    /\ portfolio.positions_active["P1"].average_exit_price # None

----------------------------------------------------------------------------
(* Delivered bars: prices set, ticks by close time, volume accounted for *)

NonNullBar(bar) ==
    /\ bar.open # None /\ bar.high # None
    /\ bar.low # None /\ bar.close # None

\* C36: every bar delivered to the handler by a time aggregator has open, high,
\* low and close set, on the simulation clock and on the real-time clock, also
\* when the real-time timer fires before the aggregator has received its first
\* tick.  (A tick-count aggregator builds only after step >= 1 updates; its
\* bars are those of C31.)
C36_DeliveredBarsNonNull ==
    /\ \A k \in 1..Len(bars) : NonNullBar(bars[k])
    /\ \A k \in 1..Len(live.bars) : NonNullBar(live.bars[k])

\* The ticks of a sequence stamped after lo and at or before hi.
TicksWithin(seq, lo, hi) ==
    SelectSeq(seq, LAMBDA tick : lo < tick.timestamp /\ tick.timestamp <= hi)

\* C37: in simulation mode every bar a TimeBarAggregator emits with close
\* timestamp T aggregates only ticks stamped at or before T: its volume is the
\* sum of the sizes of the ticks stamped after the close of the bar before it
\* and at or before T, so a tick stamped after a due timer's time is counted in
\* a later bar.
C37_NoLookAhead ==
    \A k \in 1..Len(bars) :
        LET lo == IF k = 1 THEN None ELSE bars[k - 1].timestamp IN
        bars[k].volume =
            SumSize(builder.price_type, TicksWithin(ticks, lo, bars[k].timestamp))

\* C38: for any serialized sequence of update and build operations on one
\* builder every applied tick's size is counted in exactly one bar.  Step by
\* step: an update adds the tick's size to the pending volume (nothing when
\* the tick is rejected), a build hands the whole pending volume to the bar it
\* returns and leaves none pending; so the volumes of the bars built plus the
\* pending volume always add up to the sizes of the ticks applied.
C38_VolumeConserved ==
    [][/\ (last'.op = "update" /\ last'.raised = "none") =>
            builder'.volume = builder.volume + TickSize(builder.price_type, last'.tick)
       /\ (last'.op = "update" /\ last'.raised # "none") =>
            builder'.volume = builder.volume
       /\ last'.op = "build" =>
            /\ last'.bar.volume = builder.volume
            /\ builder'.volume = 0
    ]_vars

\* A second bar was built from two updates after a first bar had taken the
\* volume before it.
C38_Witness ==
    /\ last.op = "build"
    /\ last.n = MaxOps
    /\ last.bar.volume >= 3
    /\ builder.volume = 0
    /\ builder.use_previous_close
    /\ last.bar.open # last.bar.close
    /\ last.bar.high > last.bar.open

\* C39: in every reachable state of a Position an exit time is recorded
\* (is_exited) only while the side is FLAT: a fill applied after the position
\* has closed, which makes it LONG or SHORT again, does not leave it both
\* exited and not FLAT.
C39_ExitedOnlyWhileFlat ==
    Position_is_exited(position) => Position_market_position(position) = "FLAT"

----------------------------------------------------------------------------
(* Two TimeBarAggregators on one simulation clock.  The clock holds a timer  *)
(* for each; its next event time is the earliest of the timers', and         *)
(* advance_time makes the due events of every timer pending, each with the   *)
(* handler of the aggregator that set it.  Every tick of the stream is given *)
(* to both aggregators, to either one first.                                 *)

\* A simulation clock no timer has been set on.
SharedClock_init(now) ==
    [is_test_clock |-> TRUE, time |-> now, timers |-> <<>>, pending |-> <<>>]

\* set_timer: one more repeating timer; its handler is that of the aggregator
\* of the same index.
SharedClock_set_timer(c, interval, start_time) ==
    [c EXCEPT !.timers = Append(@, [interval |-> interval,
                                    start_time |-> start_time,
                                    next_event_time |-> start_time + interval])]

\* next_event_time: the earliest due time of any timer, None without timers.
SharedClock_next_event_time(c) ==
    IF c.timers = <<>> THEN None
    ELSE LET S == { c.timers[i].next_event_time : i \in 1..Len(c.timers) }
         IN CHOOSE m \in S : \A x \in S : m <= x

\* The events of all timers due at or before to_time, each with its handler.
SharedClock_due(c, to_time) ==
    UNION { { [timestamp |-> t, handler |-> i] :
                t \in { u \in 0..to_time :
                          /\ u >= c.timers[i].next_event_time
                          /\ (u - c.timers[i].next_event_time)
                                 % c.timers[i].interval = 0 } } :
            i \in 1..Len(c.timers) }

\* Events in firing order: by due time, timers set earlier first.
RECURSIVE SortEvents(_)
SortEvents(S) ==
    IF S = {} THEN <<>>
    ELSE LET first == CHOOSE ev \in S : \A x \in S :
                          \/ ev.timestamp < x.timestamp
                          \/ (ev.timestamp = x.timestamp /\ ev.handler <= x.handler)
         IN <<first>> \o SortEvents(S \ {first})

\* advance_time on the clock with several timers
SharedClock_advance_time(c, to_time) ==
    LET due == SharedClock_due(c, to_time) IN
    [c EXCEPT
        !.time = to_time,
        !.pending = @ \o SortEvents(due),
        !.timers = [i \in 1..Len(c.timers) |->
                      [c.timers[i] EXCEPT !.next_event_time =
                          @ + c.timers[i].interval
                              * Cardinality({ ev \in due : ev.handler = i })]]]

\* get_pending_events
SharedClock_get_pending_events(c) ==
    [events |-> c.pending, clock |-> [c EXCEPT !.pending = <<>>]]

\* TimeBarAggregator.__init__ on the shared clock: next_close is read before
\* the build timer is set.
SharedAggregator_init(c, price_type, n) ==
    [aggregator |-> [builder |-> BarBuilder_init(price_type, TRUE),
                     bars |-> <<>>,
                     next_close |-> SharedClock_next_event_time(c),
                     taken |-> 0],
     clock |-> SharedClock_set_timer(c,
                  TimeBarAggregator_get_interval("SECOND", n),
                  TimeBarAggregator_get_start_time("SECOND", c.time))]

\* for event, handler in pending: handler(event), where each handler is the
\* _build_event of the aggregator that set the timer
RECURSIVE SharedFire(_, _)
SharedFire(aggs, events) ==
    IF events = <<>> THEN aggs
    ELSE LET ev == Head(events)
             a == aggs[ev.handler]
             r == TimeBarAggregator_build_event(a.builder, a.bars, ev)
         IN SharedFire([aggs EXCEPT ![ev.handler].builder = r.builder,
                                    ![ev.handler].bars = r.bars],
                       Tail(events))

\* TimeBarAggregator.update of aggregator i on the shared clock
SharedAggregator_update(aggs, c, i, tick) ==
    LET aggs1 == [aggs EXCEPT ![i].builder = BarBuilder_update(@, tick),
                              ![i].taken = @ + 1]
    IN
    IF c.is_test_clock /\ SharedClock_next_event_time(c) <= tick.timestamp
    THEN LET c1 == SharedClock_advance_time(c, tick.timestamp)
             p == SharedClock_get_pending_events(c1)
             aggs2 == SharedFire(aggs1, p.events)
         IN [aggs |-> [aggs2 EXCEPT ![i].next_close =
                                        SharedClock_next_event_time(p.clock)],
             clock |-> p.clock]
    ELSE [aggs |-> aggs1, clock |-> c]

\* The same aggregator on a simulation clock of its own.
AloneAggregator_init(now, price_type, n) ==
    LET c == TimeBarAggregator_set_build_timer(TRUE, now, "SECOND", n) IN
    [builder |-> BarBuilder_init(price_type, TRUE), bars |-> <<>>,
     clock |-> c, next_close |-> c.next_event_time]

AloneAggregator_update(a, tick) ==
    LET r == TimeBarAggregator_update(a.builder, a.clock, a.next_close, a.bars, tick)
    IN [builder |-> r.builder, bars |-> r.bars, clock |-> r.clock,
        next_close |-> r.next_close]

\* Two aggregators of one price type and different steps (their bar types,
\* and so their timer labels, differ) are constructed on one clock.
InitShared ==
    /\ \E now \in 0..1, pt \in PriceTypes, n1 \in 1..MaxStep, n2 \in 1..MaxStep :
        LET r1 == SharedAggregator_init(SharedClock_init(now), pt, n1)
            r2 == SharedAggregator_init(r1.clock, pt, n2)
        IN
        /\ n1 # n2
        /\ shared = [clock |-> r2.clock,
                     aggs |-> <<r1.aggregator, r2.aggregator>>,
                     alone |-> <<AloneAggregator_init(now, pt, n1),
                                 AloneAggregator_init(now, pt, n2)>>]
    /\ ticks = <<>>
    /\ last = [op |-> "init", n |-> 0]
    /\ builder = None
    /\ step = 0
    /\ bars = <<>>
    /\ clock = None
    /\ next_close = None
    /\ live = None
    /\ stream = <<>>
    /\ position = None
    /\ propagates = FALSE
    /\ portfolio = None
    /\ emitted = <<>>

\* Aggregator i takes a tick, on the shared clock and on the clock of its own.
SharedTake(i, tick) ==
    LET r == SharedAggregator_update(shared.aggs, shared.clock, i, tick) IN
    shared' = [clock |-> r.clock,
               aggs |-> r.aggs,
               alone |-> [shared.alone EXCEPT ![i] = AloneAggregator_update(@, tick)]]

\* The next tick of the stream arrives and is given to one aggregator first.
SharedDeliver ==
    /\ Len(ticks) < MaxSharedTicks
    /\ \A i \in 1..2 : shared.aggs[i].taken = Len(ticks)
    /\ \E i \in 1..2, q \in FeedQuotes, dt \in 0..MaxGap :
        LET now == IF ticks = <<>> THEN shared.clock.time ELSE LastTime(ticks)
            tick == Tick(q, now + dt)
        IN
        /\ SharedTake(i, tick)
        /\ ticks' = Append(ticks, tick)
        /\ last' = [op |-> "deliver", n |-> last.n + 1]
    /\ UNCHANGED <<builder, step, bars, clock, next_close, live, stream, position,
                   propagates, portfolio, emitted>>

\* The other aggregator is given the same tick.
SharedFollow ==
    /\ \E i \in 1..2 :
        /\ shared.aggs[i].taken < Len(ticks)
        /\ SharedTake(i, ticks[shared.aggs[i].taken + 1])
    /\ last' = [op |-> "follow", n |-> last.n + 1]
    /\ UNCHANGED <<builder, step, bars, ticks, clock, next_close, live, stream, position,
                   propagates, portfolio, emitted>>

NextShared == SharedDeliver \/ SharedFollow

SpecShared == InitShared /\ [][NextShared]_vars

\* C40: when two TimeBarAggregators share one simulation clock and each
\* receives the same tick stream, each assigns the ticks to bars as it would
\* with that clock to itself: once both have taken a tick, each has emitted the
\* bars it would have emitted alone.
C40_SharedAsAlone ==
    (\A i \in 1..2 : shared.aggs[i].taken = Len(ticks)) =>
        \A i \in 1..2 : shared.aggs[i].bars = shared.alone[i].bars

====
